---- MODULE Spec2Model ----
(***************************************************************************)
(* A model of src/ir_print.cpp, the textual dump of the compiler's IR.     *)
(*                                                                         *)
(* Text is a sequence of pieces (strings); one fprintf writes one or more  *)
(* pieces, and a newline is always the piece "\n" on its own.  Every        *)
(* renderer is an operator that returns a render result                    *)
(*   [text, st, uses]                                                      *)
(* text : the pieces written to irp->f before the renderer returned or     *)
(*        died,                                                            *)
(* st   : "ok" (returned), "abort" (zig_unreachable or a failed assert),   *)
(*        "unbounded" (the call re-enters a value it is rendering: the     *)
(*        recursion has no end),                                           *)
(* uses : a log of the operand instructions that were visited, each with   *)
(*        the form it was rendered in, the text it produced and the number *)
(*        of producer edges followed from the instruction of the line.     *)
(* Pointers are handles: instructions index the table instrs, blocks the   *)
(* table blocks, types the table TypeTable; the null pointer is handle 0.  *)
(* assert() is modelled as compiled in (a failed assert aborts).           *)
(***************************************************************************)
EXTENDS Integers, Sequences, FiniteSets, TLC

(* ------------------------------ bounds -------------------------------- *)

\* Blocks in an executable, at most.
MaxBlocks == 2
\* Instructions in an executable (over all its blocks), at most.
MaxInstrs == 2
\* The largest indent_size handed to ir_print.
MaxIndent == 1
\* Calls of ir_print on the same executable.
MaxDumps == 2
\* Further calls of an endless recursion that are followed.
MaxCalls == 3

\* The null pointer.
NULL == 0
\* SIZE_MAX is (size_t)-1 = 2^64 - 1, beyond the integers of the checker: it is
\* written -1, its two's-complement name.  Every other size_t of the model is a
\* natural number that stands for itself.
SIZE_MAX == -1

(* --------------------------- text helpers ----------------------------- *)

DigitChars == <<"0", "1", "2", "3", "4", "5", "6", "7", "8", "9">>

RECURSIVE Dec(_)
\* printf("%zu") / ("%llu"): the decimal numeral of a natural number.
Dec(n) == IF n < 10 THEN DigitChars[n + 1]
          ELSE Dec(n \div 10) \o DigitChars[(n % 10) + 1]

RECURSIVE Spaces(_)
Spaces(n) == IF n <= 0 THEN "" ELSE " " \o Spaces(n - 1)

\* printf("%-<w>s"): left-justified in a field of at least w characters.
PadRight(s, w) == s \o Spaces(w - Len(s))

RECURSIVE ZeroPad(_, _)
\* A numeral left-padded with zeros to at least w digits.
ZeroPad(s, w) == IF Len(s) >= w THEN s ELSE ZeroPad("0" \o s, w)

\* printf("%f") of a finite float held as sign, whole part and millionths.
FmtFloat(x) == (IF x.is_negative THEN "-" ELSE "") \o Dec(x.whole) \o "."
               \o ZeroPad(Dec(x.micros), 6)

RECURSIVE Flatten(_)
\* The characters of a text: its pieces concatenated.
Flatten(t) == IF t = <<>> THEN "" ELSE Head(t) \o Flatten(Tail(t))

RECURSIVE CountNewlines(_)
CountNewlines(t) == IF t = <<>> THEN 0
                    ELSE (IF Head(t) = "\n" THEN 1 ELSE 0) + CountNewlines(Tail(t))

Max(a, b) == IF a >= b THEN a ELSE b

(* --------------------------- render results --------------------------- *)

\* fprintf returned: the pieces were written.
Ok(t) == [text |-> t, st |-> "ok", uses |-> <<>>]
\* zig_unreachable() or a failed assert: the process aborts here.
Fatal == [text |-> <<>>, st |-> "abort", uses |-> <<>>]
\* The call re-enters the value an enclosing call is rendering: the recursion
\* goes round without end.
Unbounded == [text |-> <<>>, st |-> "unbounded", uses |-> <<>>]

\* Sequential composition: b runs only when a returned.
Then(a, b) == IF a.st = "ok"
              THEN [text |-> a.text \o b.text, st |-> b.st, uses |-> a.uses \o b.uses]
              ELSE a

Then3(a, b, c) == Then(a, Then(b, c))
Then4(a, b, c, d) == Then(a, Then(b, Then(c, d)))
Then5(a, b, c, d, e) == Then(a, Then(b, Then(c, Then(d, e))))

\* The log entry of one visited operand, wrapped around what rendering it did.
Visit(i, form, r) ==
    [text |-> r.text, st |-> r.st,
     uses |-> <<[instr |-> i, form |-> form, text |-> r.text, hop |-> 1]>>
              \o [k \in 1..Len(r.uses) |-> [r.uses[k] EXCEPT !.hop = @ + 1]]]

\* The most producer edges followed from the line's instruction.
RECURSIVE MaxHop(_)
MaxHop(uses) == IF uses = <<>> THEN 0 ELSE Max(Head(uses).hop, MaxHop(Tail(uses)))

(* ------------------------------ types --------------------------------- *)

Ty(id, name) == [id |-> id, name |-> name]
TyChild(id, name, child) == [id |-> id, name |-> name, child_type |-> child]

\* The type table: TypeTableEntry objects by handle.
TypeTable == <<
    Ty("Int", "i32"),                                           \* 1
    Ty("Bool", "bool"),                                         \* 2
    Ty("Int", "u8"),                                            \* 3
    TyChild("Pointer", "&bool", 2),                             \* 4
    [id |-> "Array", name |-> "[3]u8", child_type |-> 3, len |-> 3],   \* 5
    TyChild("Maybe", "?i32", 1),                                \* 6
    [id |-> "TypeDecl", name |-> "MyInt", canonical_type |-> 1],       \* 7
    Ty("MetaType", "type"),                                     \* 8
    Ty("Void", "void"),                                         \* 9
    Ty("Float", "f32"),                                         \* 10
    Ty("NumLitInt", "(integer literal)"),                       \* 11
    Ty("NumLitFloat", "(float literal)"),                       \* 12
    Ty("Unreachable", "unreachable"),                           \* 13
    Ty("Fn", "fn()"),                                           \* 14
    Ty("Block", "(block)"),                                     \* 15
    Ty("NullLit", "(null)"),                                    \* 16
    Ty("UndefLit", "(undefined)"),                              \* 17
    Ty("Namespace", "(namespace)"),                             \* 18
    Ty("BoundFn", "(bound fn)"),                                \* 19
    Ty("Struct", "Point"),                                      \* 20
    Ty("Enum", "Color"),                                        \* 21
    Ty("ErrorUnion", "%i32"),                                   \* 22
    Ty("Union", "U"),                                           \* 23
    Ty("PureError", "error"),                                   \* 24
    Ty("Invalid", "(invalid)"),                                 \* 25
    Ty("Var", "(var)"),                                         \* 26
    [id |-> "Array", name |-> "[0]u8", child_type |-> 3, len |-> 0],   \* 27
    Ty("Unlisted", "(corrupt)"),                                \* 28
    [id |-> "TypeDecl", name |-> "BoolPtr", canonical_type |-> 4],     \* 29
    [id |-> "Array", name |-> "[2][3]u8", child_type |-> 5, len |-> 2] \* 30
>>

\* The TypeTableEntryId values ir_print_const_value has a case for.
ValueKinds == {"TypeDecl", "Invalid", "Var", "Void", "NumLitFloat", "NumLitInt",
               "MetaType", "Int", "Float", "Unreachable", "Bool", "Pointer", "Fn",
               "Block", "Array", "NullLit", "UndefLit", "Maybe", "Namespace",
               "BoundFn", "Struct", "Enum", "ErrorUnion", "Union", "PureError"}

(* ------------------------------ values -------------------------------- *)

\* ConstExprValue objects.
RuntimeVal == [special |-> "Runtime"]
UndefVal == [special |-> "Undef"]
ZeroesVal == [special |-> "Zeroes"]
IntVal(neg, n) == [special |-> "Static",
                   x_bignum |-> [kind |-> "Int", is_negative |-> neg, x_uint |-> n]]
FloatVal(neg, w, m) == [special |-> "Static",
                        x_bignum |-> [kind |-> "Float",
                                      x_float |-> [is_negative |-> neg, whole |-> w, micros |-> m]]]
BoolVal(b) == [special |-> "Static", x_bool |-> b]
TypeVal(t) == [special |-> "Static", x_type |-> t]
PtrVal(v) == [special |-> "Static", x_ptr |-> v]
FnVal(sym) == [special |-> "Static", x_fn |-> [symbol_name |-> sym]]
BlockVal(l, c) == [special |-> "Static", x_block |-> [node |-> [line |-> l, column |-> c]]]
ArrayVal(es) == [special |-> "Static", x_array |-> [elements |-> es]]
MaybeVal(m) == [special |-> "Static", x_maybe |-> m]
ImportVal(p) == [special |-> "Static", x_import |-> [path |-> p]]
BoundFnVal(sym, arg) == [special |-> "Static",
                         x_bound_fn |-> [fn |-> [symbol_name |-> sym], first_arg |-> arg]]
OpaqueVal == [special |-> "Static"]

\* const_ptr_pointee: the value a constant pointer points at.
const_ptr_pointee(const_val) == const_val.x_ptr

(* ------------------------------ state --------------------------------- *)

VARIABLES
    instrs,       \* the IrInstruction objects, by handle
    blocks,       \* the IrBasicBlock objects, by handle
    exe,          \* the IrExecutable handed to ir_print
    indent_size,  \* the indent_size handed to ir_print
    irp,          \* the IrPrint of the running call
    bb_i,         \* ir_print's loop index over basic_block_list
    instr_i,      \* ir_print's loop index over instruction_list
    at,           \* where the running call is: "label" or "instrs"
    out,          \* what the running (or last) call has written to f
    status,       \* "idle", "running", "done", "aborted", "recursing" or "overflow"
    prev_out,     \* what the previous completed call wrote, in a sequence
    dumps,        \* completed calls of ir_print
    line,         \* the render result of the last instruction line
    calls         \* calls of an endless recursion made after the first pass

vars == <<instrs, blocks, exe, indent_size, irp, bb_i, instr_i, at, out, status,
          prev_out, dumps, line, calls>>

(* ----------------------- constant-value renderer ---------------------- *)

RECURSIVE ir_print_const_value(_, _, _)
RECURSIVE ir_print_array_elems(_, _, _, _)
RECURSIVE ir_print_other_instruction(_, _)

\* fprintf("#%zu", instruction->debug_id)
ir_print_var_instruction(instruction) ==
    Visit(instruction, "ref", Ok(<<"#", Dec(instrs[instruction].debug_id)>>))

\* The value of the instruction, at the instruction's type.
ir_print_const_instruction(instruction, d) ==
    ir_print_const_value(instrs[instruction].type_entry,
                         instrs[instruction].static_value, d \cup {instruction})

ir_print_other_instruction_inv(instruction, d) ==
    IF instrs[instruction].static_value.special = "Runtime"
    THEN Visit(instruction, "value", ir_print_const_instruction(instruction, d))
    ELSE ir_print_var_instruction(instruction)

\* The operand reference renderer.  d is the set of instructions whose value
\* the calls on the stack are rendering: a call on one of them does again what
\* the enclosing call on it does, so the recursion has no end.
ir_print_other_instruction(instruction, d) ==
    IF instrs[instruction].static_value.special # "Runtime"
    THEN Visit(instruction, "value",
               IF instruction \in d THEN Unbounded
               ELSE ir_print_const_instruction(instruction, d))
    ELSE ir_print_var_instruction(instruction)

ir_print_bound_fn_ref(const_val, d) ==
    Then(Ok(<<"bound ", const_val.x_bound_fn.fn.symbol_name, " to ">>),
         ir_print_var_instruction(const_val.x_bound_fn.first_arg))

\* The bound-function case: the symbol, then the receiver as an operand.
ir_print_bound_fn(const_val, d) ==
    Then(Ok(<<"bound ", const_val.x_bound_fn.fn.symbol_name, " to ">>),
         ir_print_other_instruction(const_val.x_bound_fn.first_arg, d))

RECURSIVE ir_print_array_elems_trailing(_, _, _, _)
ir_print_array_elems_trailing(type_entry, const_val, i, d) ==
    IF i >= TypeTable[type_entry].len THEN Ok(<<>>)
    ELSE Then3(ir_print_const_value(TypeTable[type_entry].child_type,
                                    const_val.x_array.elements[i + 1], d),
               Ok(<<",">>),
               ir_print_array_elems_trailing(type_entry, const_val, i + 1, d))

\* The loop of the array case, from element i (0-based) on.
ir_print_array_elems(type_entry, const_val, i, d) ==
    IF i >= TypeTable[type_entry].len THEN Ok(<<>>)
    ELSE Then3(IF i # 0 THEN Ok(<<",">>) ELSE Ok(<<>>),
               ir_print_const_value(TypeTable[type_entry].child_type,
                                    const_val.x_array.elements[i + 1], d),
               ir_print_array_elems(type_entry, const_val, i + 1, d))

\* The second switch of ir_print_const_value, on type_entry->id.
ir_print_static_value(type_entry, const_val, d) ==
    LET t == TypeTable[type_entry]
        id == t.id
    IN  CASE id = "TypeDecl" -> ir_print_const_value(t.canonical_type, const_val, d)
          [] id = "Invalid" -> Ok(<<"(invalid)">>)
          [] id = "Var" -> Ok(<<"(var)">>)
          [] id = "Void" -> Ok(<<"{}">>)
          [] id = "NumLitFloat" -> Ok(<<FmtFloat(const_val.x_bignum.x_float)>>)
          [] id = "NumLitInt" ->
                Ok(<<IF const_val.x_bignum.is_negative THEN "-" ELSE "",
                     Dec(const_val.x_bignum.x_uint)>>)
          [] id = "MetaType" -> Ok(<<TypeTable[const_val.x_type].name>>)
          [] id = "Int" ->
                IF const_val.x_bignum.kind # "Int" THEN Fatal
                ELSE Ok(<<IF const_val.x_bignum.is_negative THEN "-" ELSE "",
                          Dec(const_val.x_bignum.x_uint)>>)
          [] id = "Float" ->
                IF const_val.x_bignum.kind # "Float" THEN Fatal
                ELSE Ok(<<FmtFloat(const_val.x_bignum.x_float)>>)
          [] id = "Unreachable" -> Ok(<<"@unreachable()">>)
          [] id = "Bool" -> Ok(<<IF const_val.x_bool THEN "true" ELSE "false">>)
          [] id = "Pointer" ->
                Then(Ok(<<"&">>),
                     ir_print_const_value(t.child_type, const_ptr_pointee(const_val), d))
          [] id = "Fn" -> Ok(<<const_val.x_fn.symbol_name>>)
          [] id = "Block" ->
                Ok(<<"(scope:", Dec(const_val.x_block.node.line + 1), ":",
                     Dec(const_val.x_block.node.column + 1), ")">>)
          [] id = "Array" ->
                Then3(Ok(<<t.name, "{">>),
                      ir_print_array_elems(type_entry, const_val, 0, d),
                      Ok(<<"}">>))
          [] id = "NullLit" -> Ok(<<"null">>)
          [] id = "UndefLit" -> Ok(<<"undefined">>)
          [] id = "Maybe" ->
                IF const_val.x_maybe # <<>>
                THEN ir_print_const_value(t.child_type, const_val.x_maybe[1], d)
                ELSE Ok(<<"null">>)
          [] id = "Namespace" -> Ok(<<"(namespace: ", const_val.x_import.path, ")">>)
          [] id = "BoundFn" -> ir_print_bound_fn(const_val, d)
          [] id = "Struct" -> Ok(<<"(struct ", t.name, " constant)">>)
          [] id = "Enum" -> Ok(<<"(enum ", t.name, " constant)">>)
          [] id = "ErrorUnion" -> Ok(<<"(error union ", t.name, " constant)">>)
          [] id = "Union" -> Ok(<<"(union ", t.name, " constant)">>)
          [] id = "PureError" -> Ok(<<"(pure error constant)">>)
          [] OTHER -> Fatal

ir_print_const_value_typefirst(type_entry, const_val, d) ==
    IF const_val.special = "Runtime" THEN Fatal
    ELSE IF TypeTable[type_entry].id \in {"Pointer", "Array", "Maybe", "TypeDecl"}
            /\ const_val.special = "Static"
    THEN ir_print_static_value(type_entry, const_val, d)
    ELSE IF TypeTable[type_entry].id \in {"Pointer", "Array", "Maybe", "TypeDecl"}
    THEN Then(Ok(<<TypeTable[type_entry].name, " ">>),
              Ok(<<IF const_val.special = "Undef" THEN "undefined" ELSE "zeroes">>))
    ELSE IF const_val.special = "Undef" THEN Ok(<<"undefined">>)
    ELSE IF const_val.special = "Zeroes" THEN Ok(<<"zeroes">>)
    ELSE ir_print_static_value(type_entry, const_val, d)

\* The constant-value renderer: the evaluation state first, then the type.
ir_print_const_value(type_entry, const_val, d) ==
    CASE const_val.special = "Runtime" -> Fatal
      [] const_val.special = "Undef" -> Ok(<<"undefined">>)
      [] const_val.special = "Zeroes" -> Ok(<<"zeroes">>)
      [] const_val.special = "Static" -> ir_print_static_value(type_entry, const_val, d)

(* ------------------------ instruction renderers ----------------------- *)

\* ir_has_side_effects: the instruction is retained whatever its use count.
ir_has_side_effects(instruction) == instrs[instruction].has_side_effects

RECURSIVE ir_print_indent_from(_, _)
ir_print_indent_from(irp_, i) ==
    IF i < irp_.indent THEN Then(Ok(<<" ">>), ir_print_indent_from(irp_, i + 1))
    ELSE Ok(<<>>)

\* One space per unit of irp->indent.
ir_print_indent(irp_) == ir_print_indent_from(irp_, 0)

ir_print_prefix_count(irp_, instruction) ==
    LET I == instrs[instruction]
        type_name == IF I.type_entry # NULL THEN TypeTable[I.type_entry].name
                     ELSE "(unknown)"
    IN  Then(ir_print_indent(irp_),
             Ok(<<"#", PadRight(Dec(I.debug_id), 3), "| ", PadRight(type_name, 12), "| ",
                  PadRight(Dec(I.ref_count), 2), "| ">>))

ir_print_prefix_nopad(irp_, instruction) ==
    LET I == instrs[instruction]
        type_name == IF I.type_entry # NULL THEN TypeTable[I.type_entry].name
                     ELSE "(unknown)"
        ref_count == IF ir_has_side_effects(instruction) THEN "-" ELSE Dec(I.ref_count)
    IN  Then(ir_print_indent(irp_),
             Ok(<<"#", Dec(I.debug_id), "| ", type_name, "| ",
                  PadRight(ref_count, 2), "| ">>))

\* The prefix of an instruction line: "#%-3zu| %-12s| %-2s| ".
ir_print_prefix(irp_, instruction) ==
    LET I == instrs[instruction]
        type_name == IF I.type_entry # NULL THEN TypeTable[I.type_entry].name
                     ELSE "(unknown)"
        ref_count == IF ir_has_side_effects(instruction) THEN "-" ELSE Dec(I.ref_count)
    IN  Then(ir_print_indent(irp_),
             Ok(<<"#", PadRight(Dec(I.debug_id), 3), "| ", PadRight(type_name, 12), "| ",
                  PadRight(ref_count, 2), "| ">>))

\* A reference to a block: fprintf("$%s_%zu", bb->name_hint, bb->debug_id).
ir_print_other_block(bb) ==
    Ok(<<"$", blocks[bb].name_hint, "_", Dec(blocks[bb].debug_id)>>)

ir_print_return(instruction) ==
    IF instrs[instruction].value = NULL THEN Fatal
    ELSE Then(Ok(<<"return ">>),
              ir_print_other_instruction(instrs[instruction].value, {}))

ir_print_const(instruction) == ir_print_const_instruction(instruction, {})

\* The IrBinOp values ir_bin_op_id_str has a token for.
BinOpStr == [BoolOr |-> "BoolOr", BoolAnd |-> "BoolAnd", CmpEq |-> "==",
             CmpNotEq |-> "!=", CmpLessThan |-> "<", CmpGreaterThan |-> ">",
             CmpLessOrEq |-> "<=", CmpGreaterOrEq |-> ">=", BinOr |-> "|",
             BinXor |-> "^", BinAnd |-> "&", BitShiftLeft |-> "<<",
             BitShiftLeftWrap |-> "<<%", BitShiftRight |-> ">>", Add |-> "+",
             AddWrap |-> "+%", Sub |-> "-", SubWrap |-> "-%", Mult |-> "*",
             MultWrap |-> "*%", Div |-> "/", Mod |-> "%", ArrayCat |-> "++",
             ArrayMult |-> "**"]

\* The token of a binary operator; IrBinOpInvalid and unlisted tags abort.
ir_bin_op_id_str(op_id) ==
    IF op_id \in DOMAIN BinOpStr THEN Ok(<<BinOpStr[op_id]>>) ELSE Fatal

\* The IrUnOp values ir_un_op_id_str has a token for.
UnOpStr == [BoolNot |-> "!", BinNot |-> "~", Negation |-> "-", NegationWrap |-> "-%",
            AddressOf |-> "&", ConstAddressOf |-> "&const", Dereference |-> "*",
            Maybe |-> "?", Error |-> "%", UnwrapError |-> "%%", UnwrapMaybe |-> "??",
            MaybeReturn |-> "?return", ErrorReturn |-> "%return"]

\* The token of a unary operator; IrUnOpInvalid and unlisted tags abort.
ir_un_op_id_str(op_id) ==
    IF op_id \in DOMAIN UnOpStr THEN Ok(<<UnOpStr[op_id]>>) ELSE Fatal

ir_print_un_op(instruction) ==
    LET op == ir_un_op_id_str(instrs[instruction].op_id)
    IN  Then(IF op.st = "ok" THEN Ok(<<op.text[1], " ">>) ELSE op,
             ir_print_other_instruction(instrs[instruction].value, {}))

ir_print_bin_op(instruction) ==
    LET op == ir_bin_op_id_str(instrs[instruction].op_id)
    IN  Then3(ir_print_other_instruction(instrs[instruction].op1, {}),
              IF op.st = "ok" THEN Ok(<<" ", op.text[1], " ">>) ELSE op,
              ir_print_other_instruction(instrs[instruction].op2, {}))

ir_print_decl_var(instruction) ==
    LET I == instrs[instruction]
        inline_kw == IF I.var.is_inline THEN "inline " ELSE ""
        var_or_const == IF I.var.gen_is_const THEN "const" ELSE "var"
    IN  Then(IF I.var_type # NULL
             THEN Then3(Ok(<<inline_kw, var_or_const, " ", I.var.name, ": ">>),
                        ir_print_other_instruction(I.var_type, {}),
                        Ok(<<" = ">>))
             ELSE Ok(<<inline_kw, var_or_const, " ", I.var.name, " = ">>),
             ir_print_other_instruction(I.init_value, {}))

ir_print_cast(instruction) ==
    Then3(Ok(<<"cast ">>),
          ir_print_other_instruction(instrs[instruction].value, {}),
          Ok(<<" to ", TypeTable[instrs[instruction].dest_type].name>>))

RECURSIVE ir_print_call_args(_, _)
ir_print_call_args(instruction, i) ==
    IF i >= instrs[instruction].arg_count THEN Ok(<<>>)
    ELSE Then3(IF i # 0 THEN Ok(<<", ">>) ELSE Ok(<<>>),
               ir_print_other_instruction(instrs[instruction].args[i + 1], {}),
               ir_print_call_args(instruction, i + 1))

ir_print_call(instruction) ==
    LET I == instrs[instruction]
    IN  Then4(IF I.fn_entry # <<>> THEN Ok(<<I.fn_entry[1].symbol_name>>)
              ELSE IF I.fn_ref = NULL THEN Fatal
              ELSE ir_print_other_instruction(I.fn_ref, {}),
              Ok(<<"(">>),
              ir_print_call_args(instruction, 0),
              Ok(<<")">>))

ir_print_cond_br(instruction) ==
    LET I == instrs[instruction]
    IN  Then3(Ok(<<IF I.is_inline THEN "inline " ELSE "", "if (">>),
              ir_print_other_instruction(I.condition, {}),
              Then4(Ok(<<") ">>),
                    ir_print_other_block(I.then_block),
                    Ok(<<" else ">>),
                    ir_print_other_block(I.else_block)))

ir_print_br(instruction) ==
    Then(Ok(<<IF instrs[instruction].is_inline THEN "inline " ELSE "", "goto ">>),
         ir_print_other_block(instrs[instruction].dest_block))

RECURSIVE ir_print_phi_edges(_, _)
RECURSIVE ir_print_phi_edges_rev(_, _)
ir_print_phi_edges_rev(instruction, i) ==
    IF i >= instrs[instruction].incoming_count THEN Ok(<<>>)
    ELSE Then5(ir_print_phi_edges_rev(instruction, i + 1),
               IF i # instrs[instruction].incoming_count - 1 THEN Ok(<<" ">>) ELSE Ok(<<>>),
               ir_print_other_block(instrs[instruction].incoming_blocks[i + 1]),
               Ok(<<":">>),
               ir_print_other_instruction(instrs[instruction].incoming_values[i + 1], {}))

\* The loop of ir_print_phi, from edge i (0-based) on.
ir_print_phi_edges(instruction, i) ==
    IF i >= instrs[instruction].incoming_count THEN Ok(<<>>)
    ELSE Then5(IF i # 0 THEN Ok(<<" ">>) ELSE Ok(<<>>),
               ir_print_other_block(instrs[instruction].incoming_blocks[i + 1]),
               Ok(<<":">>),
               ir_print_other_instruction(instrs[instruction].incoming_values[i + 1], {}),
               ir_print_phi_edges(instruction, i + 1))

ir_print_phi(instruction) ==
    IF instrs[instruction].incoming_count = 0 THEN Fatal
    ELSE IF instrs[instruction].incoming_count = SIZE_MAX THEN Fatal
    ELSE ir_print_phi_edges(instruction, 0)

RECURSIVE ir_print_init_list_items(_, _)
ir_print_init_list_items(instruction, i) ==
    IF i >= instrs[instruction].item_count THEN Ok(<<>>)
    ELSE Then3(IF i # 0 THEN Ok(<<", ">>) ELSE Ok(<<>>),
               ir_print_other_instruction(instrs[instruction].items[i + 1], {}),
               ir_print_init_list_items(instruction, i + 1))

ir_print_container_init_list(instruction) ==
    Then4(ir_print_other_instruction(instrs[instruction].container_type, {}),
          Ok(<<"{">>),
          ir_print_init_list_items(instruction, 0),
          Ok(<<"}">>))

RECURSIVE ir_print_init_fields(_, _)
\* The field loops of ir_print_container_init_fields and ir_print_struct_init.
ir_print_init_fields(instruction, i) ==
    IF i >= instrs[instruction].field_count THEN Ok(<<>>)
    ELSE Then3(Ok(<<IF i = 0 THEN "" ELSE ", ", ".",
                    instrs[instruction].fields[i + 1].name, " = ">>),
               ir_print_other_instruction(instrs[instruction].fields[i + 1].value, {}),
               ir_print_init_fields(instruction, i + 1))

ir_print_container_init_fields(instruction) ==
    Then4(ir_print_other_instruction(instrs[instruction].container_type, {}),
          Ok(<<"{">>),
          ir_print_init_fields(instruction, 0),
          Ok(<<"} // container init">>))

ir_print_struct_init(instruction) ==
    Then3(Ok(<<TypeTable[instrs[instruction].struct_type].name, " {">>),
          ir_print_init_fields(instruction, 0),
          Ok(<<"} // struct init">>))

ir_print_unreachable(instruction) == Ok(<<"unreachable">>)

ir_print_elem_ptr(instruction) ==
    Then5(Ok(<<"&">>),
          ir_print_other_instruction(instrs[instruction].array_ptr, {}),
          Ok(<<"[">>),
          ir_print_other_instruction(instrs[instruction].elem_index, {}),
          Ok(<<"]">> \o (IF ~instrs[instruction].safety_check_on
                         THEN <<" // no safety">> ELSE <<>>)))

ir_print_var_ptr(instruction) == Ok(<<"&", instrs[instruction].var.name>>)

\* The pointer is always written as a reference, the value as an operand.
ir_print_store_ptr(instruction) ==
    Then4(Ok(<<"*">>),
          ir_print_var_instruction(instrs[instruction].ptr),
          Ok(<<" = ">>),
          ir_print_other_instruction(instrs[instruction].value, {}))

ir_print_unwrap_maybe(instruction) ==
    Then3(Ok(<<"&??*">>),
          ir_print_other_instruction(instrs[instruction].value, {}),
          Ok(IF ~instrs[instruction].safety_check_on
             THEN <<" // no safety">> ELSE <<>>))

ir_print_slice_type(instruction) ==
    Then(Ok(<<"[]", IF instrs[instruction].is_const THEN "const " ELSE "">>),
         ir_print_other_instruction(instrs[instruction].child_type, {}))

ir_print_array_type(instruction) ==
    Then4(Ok(<<"[">>),
          ir_print_other_instruction(instrs[instruction].size, {}),
          Ok(<<"]">>),
          ir_print_other_instruction(instrs[instruction].child_type, {}))

ir_print_field_ptr(instruction) ==
    Then3(Ok(<<"fieldptr ">>),
          ir_print_other_instruction(instrs[instruction].container_ptr, {}),
          Ok(<<".", instrs[instruction].field_name>>))

ir_print_struct_field_ptr(instruction) ==
    Then4(Ok(<<"@StructFieldPtr(&">>),
          ir_print_other_instruction(instrs[instruction].struct_ptr, {}),
          Ok(<<".", instrs[instruction].field.name>>),
          Ok(<<")">>))

ir_print_enum_field_ptr(instruction) ==
    Then4(Ok(<<"@EnumFieldPtr(&">>),
          ir_print_other_instruction(instrs[instruction].enum_ptr, {}),
          Ok(<<".", instrs[instruction].field.name>>),
          Ok(<<")">>))

ir_print_array_len(instruction) ==
    Then(ir_print_other_instruction(instrs[instruction].array_value, {}),
         Ok(<<".len">>))

ir_print_load_ptr(instruction) ==
    Then(Ok(<<"*">>),
         ir_print_other_instruction(instrs[instruction].ptr, {}))

ir_print_typeof(instruction) ==
    Then3(Ok(<<"@typeOf(">>),
          ir_print_other_instruction(instrs[instruction].value, {}),
          Ok(<<")">>))

ir_print_to_ptr_type(instruction) ==
    Then3(Ok(<<"@toPtrType(">>),
          ir_print_other_instruction(instrs[instruction].value, {}),
          Ok(<<")">>))

ir_print_ptr_type_child(instruction) ==
    Then3(Ok(<<"@ptrTypeChild(">>),
          ir_print_other_instruction(instrs[instruction].value, {}),
          Ok(<<")">>))

ir_print_set_fn_test(instruction) ==
    Then5(Ok(<<"@setFnTest(">>),
          ir_print_other_instruction(instrs[instruction].fn_value, {}),
          Ok(<<", ">>),
          ir_print_other_instruction(instrs[instruction].is_test, {}),
          Ok(<<")">>))

ir_print_set_fn_visible(instruction) ==
    Then5(Ok(<<"@setFnVisible(">>),
          ir_print_other_instruction(instrs[instruction].fn_value, {}),
          Ok(<<", ">>),
          ir_print_other_instruction(instrs[instruction].is_visible, {}),
          Ok(<<")">>))

ir_print_set_debug_safety(instruction) ==
    Then5(Ok(<<"@setDebugSafety(">>),
          ir_print_other_instruction(instrs[instruction].scope_value, {}),
          Ok(<<", ">>),
          ir_print_other_instruction(instrs[instruction].debug_safety_on, {}),
          Ok(<<")">>))

ir_print_compile_var(instruction) ==
    Then3(Ok(<<"@compileVar(">>),
          ir_print_other_instruction(instrs[instruction].name, {}),
          Ok(<<")">>))

ir_print_size_of(instruction) ==
    Then3(Ok(<<"@sizeOf(">>),
          ir_print_other_instruction(instrs[instruction].type_value, {}),
          Ok(<<")">>))

ir_print_test_null(instruction) ==
    Then3(Ok(<<"*">>),
          ir_print_other_instruction(instrs[instruction].value, {}),
          Ok(<<" == null">>))

ir_print_clz(instruction) ==
    Then3(Ok(<<"@clz(">>),
          ir_print_other_instruction(instrs[instruction].value, {}),
          Ok(<<")">>))

ir_print_ctz(instruction) ==
    Then3(Ok(<<"@ctz(">>),
          ir_print_other_instruction(instrs[instruction].value, {}),
          Ok(<<")">>))

ir_print_switch_target(instruction) ==
    Then(Ok(<<"switchtarget ">>),
         ir_print_other_instruction(instrs[instruction].target_value_ptr, {}))

ir_print_enum_tag(instruction) ==
    Then(Ok(<<"enumtag ">>),
         ir_print_other_instruction(instrs[instruction].value, {}))

ir_print_static_eval(instruction) ==
    Then3(Ok(<<"@staticEval(">>),
          ir_print_other_instruction(instrs[instruction].value, {}),
          Ok(<<")">>))

ir_print_import(instruction) ==
    Then3(Ok(<<"@import(">>),
          ir_print_other_instruction(instrs[instruction].name, {}),
          Ok(<<")">>))

ir_print_ref_uncovered(instruction) == Ok(<<>>)

ir_print_ref(instruction) ==
    Then(Ok(<<"ref ">>),
         ir_print_other_instruction(instrs[instruction].value, {}))

ir_print_switch_var(instruction) ==
    Then4(Ok(<<"switchvar ">>),
          ir_print_other_instruction(instrs[instruction].target_value_ptr, {}),
          Ok(<<", ">>),
          ir_print_other_instruction(instrs[instruction].prong_value, {}))

RECURSIVE ir_print_switch_cases(_, _)
ir_print_switch_cases(instruction, i) ==
    IF i >= instrs[instruction].case_count THEN Ok(<<>>)
    ELSE Then5(ir_print_other_instruction(instrs[instruction].cases[i + 1].value, {}),
               Ok(<<" => ">>),
               ir_print_other_block(instrs[instruction].cases[i + 1].block),
               Ok(<<", ">>),
               ir_print_switch_cases(instruction, i + 1))

ir_print_switch_br_else_first(instruction) ==
    Then5(Ok(<<IF instrs[instruction].is_inline THEN "inline " ELSE "", "switch (">>),
          ir_print_other_instruction(instrs[instruction].target_value, {}),
          Ok(<<") ">>),
          Then3(Ok(<<"else => ">>),
                ir_print_other_block(instrs[instruction].else_block),
                Ok(IF instrs[instruction].case_count > 0 THEN <<", ">> ELSE <<>>)),
          ir_print_switch_cases(instruction, 0))

ir_print_switch_br(instruction) ==
    Then5(Ok(<<IF instrs[instruction].is_inline THEN "inline " ELSE "", "switch (">>),
          ir_print_other_instruction(instrs[instruction].target_value, {}),
          Ok(<<") ">>),
          ir_print_switch_cases(instruction, 0),
          Then(Ok(<<"else => ">>),
               ir_print_other_block(instrs[instruction].else_block)))

RECURSIVE ir_print_asm_outputs(_, _)
ir_print_asm_outputs(instruction, i) ==
    LET asm_expr == instrs[instruction].source_node.asm_expr
    IN  IF i >= Len(asm_expr.output_list) THEN Ok(<<>>)
        ELSE LET asm_output == asm_expr.output_list[i + 1]
             IN  Then5(IF i # 0 THEN Ok(<<", ">>) ELSE Ok(<<>>),
                       Ok(<<"[", asm_output.asm_symbolic_name, "] \"",
                            asm_output.constraint, "\" (">>),
                       IF asm_output.return_type
                       THEN Then(Ok(<<"-> ">>),
                                 ir_print_other_instruction(
                                     instrs[instruction].output_types[i + 1], {}))
                       ELSE Ok(<<asm_output.variable_name>>),
                       Ok(<<")">>),
                       ir_print_asm_outputs(instruction, i + 1))

RECURSIVE ir_print_asm_inputs(_, _)
ir_print_asm_inputs(instruction, i) ==
    LET asm_expr == instrs[instruction].source_node.asm_expr
    IN  IF i >= Len(asm_expr.input_list) THEN Ok(<<>>)
        ELSE LET asm_input == asm_expr.input_list[i + 1]
             IN  Then5(IF i # 0 THEN Ok(<<", ">>) ELSE Ok(<<>>),
                       Ok(<<"[", asm_input.asm_symbolic_name, "] \"",
                            asm_input.constraint, "\" (">>),
                       ir_print_other_instruction(instrs[instruction].input_list[i + 1], {}),
                       Ok(<<")">>),
                       ir_print_asm_inputs(instruction, i + 1))

RECURSIVE ir_print_asm_clobbers(_, _)
ir_print_asm_clobbers(instruction, i) ==
    LET asm_expr == instrs[instruction].source_node.asm_expr
    IN  IF i >= Len(asm_expr.clobber_list) THEN Ok(<<>>)
        ELSE Then3(IF i # 0 THEN Ok(<<", ">>) ELSE Ok(<<>>),
                   Ok(<<"\"", asm_expr.clobber_list[i + 1], "\"">>),
                   ir_print_asm_clobbers(instruction, i + 1))

ir_print_asm(instruction) ==
    LET I == instrs[instruction]
    IN  IF I.source_node.type # "NodeTypeAsmExpr" THEN Fatal
        ELSE Then5(Ok(<<"asm", IF I.asm_has_side_effects THEN " volatile" ELSE "",
                        " (\"", I.source_node.asm_expr.asm_template, "\") : ">>),
                   ir_print_asm_outputs(instruction, 0),
                   Then(Ok(<<" : ">>), ir_print_asm_inputs(instruction, 0)),
                   Then(Ok(<<" : ">>), ir_print_asm_clobbers(instruction, 0)),
                   Ok(<<")">>))

\* The IrInstructionId values the switch of ir_print_instruction has a case for.
InstructionKinds ==
    {"Invalid", "Return", "Const", "BinOp", "DeclVar", "Cast", "Call", "UnOp", "CondBr",
     "Br", "Phi", "ContainerInitList", "ContainerInitFields", "StructInit",
     "Unreachable", "ElemPtr", "VarPtr", "LoadPtr", "StorePtr", "TypeOf", "ToPtrType",
     "PtrTypeChild", "FieldPtr", "StructFieldPtr", "EnumFieldPtr", "SetFnTest",
     "SetFnVisible", "SetDebugSafety", "ArrayType", "SliceType", "Asm", "CompileVar",
     "SizeOf", "TestNull", "UnwrapMaybe", "Ctz", "Clz", "SwitchBr", "SwitchVar",
     "SwitchTarget", "EnumTag", "StaticEval", "Import", "ArrayLen", "Ref"}

\* The switch of ir_print_instruction: the body of the line.
ir_print_instruction_body(instruction) ==
    LET id == instrs[instruction].id
    IN  CASE id = "Invalid" -> Fatal
          [] id = "Return" -> ir_print_return(instruction)
          [] id = "Const" -> ir_print_const(instruction)
          [] id = "BinOp" -> ir_print_bin_op(instruction)
          [] id = "DeclVar" -> ir_print_decl_var(instruction)
          [] id = "Cast" -> ir_print_cast(instruction)
          [] id = "Call" -> ir_print_call(instruction)
          [] id = "UnOp" -> ir_print_un_op(instruction)
          [] id = "CondBr" -> ir_print_cond_br(instruction)
          [] id = "Br" -> ir_print_br(instruction)
          [] id = "Phi" -> ir_print_phi(instruction)
          [] id = "ContainerInitList" -> ir_print_container_init_list(instruction)
          [] id = "ContainerInitFields" -> ir_print_container_init_fields(instruction)
          [] id = "StructInit" -> ir_print_struct_init(instruction)
          [] id = "Unreachable" -> ir_print_unreachable(instruction)
          [] id = "ElemPtr" -> ir_print_elem_ptr(instruction)
          [] id = "VarPtr" -> ir_print_var_ptr(instruction)
          [] id = "LoadPtr" -> ir_print_load_ptr(instruction)
          [] id = "StorePtr" -> ir_print_store_ptr(instruction)
          [] id = "TypeOf" -> ir_print_typeof(instruction)
          [] id = "ToPtrType" -> ir_print_to_ptr_type(instruction)
          [] id = "PtrTypeChild" -> ir_print_ptr_type_child(instruction)
          [] id = "FieldPtr" -> ir_print_field_ptr(instruction)
          [] id = "StructFieldPtr" -> ir_print_struct_field_ptr(instruction)
          [] id = "EnumFieldPtr" -> ir_print_enum_field_ptr(instruction)
          [] id = "SetFnTest" -> ir_print_set_fn_test(instruction)
          [] id = "SetFnVisible" -> ir_print_set_fn_visible(instruction)
          [] id = "SetDebugSafety" -> ir_print_set_debug_safety(instruction)
          [] id = "ArrayType" -> ir_print_array_type(instruction)
          [] id = "SliceType" -> ir_print_slice_type(instruction)
          [] id = "Asm" -> ir_print_asm(instruction)
          [] id = "CompileVar" -> ir_print_compile_var(instruction)
          [] id = "SizeOf" -> ir_print_size_of(instruction)
          [] id = "TestNull" -> ir_print_test_null(instruction)
          [] id = "UnwrapMaybe" -> ir_print_unwrap_maybe(instruction)
          [] id = "Ctz" -> ir_print_ctz(instruction)
          [] id = "Clz" -> ir_print_clz(instruction)
          [] id = "SwitchBr" -> ir_print_switch_br(instruction)
          [] id = "SwitchVar" -> ir_print_switch_var(instruction)
          [] id = "SwitchTarget" -> ir_print_switch_target(instruction)
          [] id = "EnumTag" -> ir_print_enum_tag(instruction)
          [] id = "StaticEval" -> ir_print_static_eval(instruction)
          [] id = "Import" -> ir_print_import(instruction)
          [] id = "ArrayLen" -> ir_print_array_len(instruction)
          [] id = "Ref" -> ir_print_ref(instruction)
          [] OTHER -> Ok(<<>>)

ir_print_instruction_nonl(irp_, instruction) ==
    Then(ir_print_prefix(irp_, instruction),
         ir_print_instruction_body(instruction))

\* One instruction line: the prefix, the body of its kind, a newline.
ir_print_instruction(irp_, instruction) ==
    Then3(ir_print_prefix(irp_, instruction),
          ir_print_instruction_body(instruction),
          Ok(<<"\n">>))

(* --------------------------- the object graph ------------------------- *)

\* An IrInstruction object: the fields every kind has, and those of its kind.
Ins(id, ty, rc, se, val, more) ==
    [id |-> id, type_entry |-> ty, ref_count |-> rc, has_side_effects |-> se,
     static_value |-> val] @@ more

Var(name, inl, cst) == [name |-> name, is_inline |-> inl, gen_is_const |-> cst]
Val1(v) == [value |-> v]
NoMore == [value |-> NULL]

AsmNode ==
    [type |-> "NodeTypeAsmExpr",
     asm_expr |-> [asm_template |-> "syscall",
                   output_list |-> <<[asm_symbolic_name |-> "ret", constraint |-> "={rax}",
                                      return_type |-> TRUE, variable_name |-> ""],
                                     [asm_symbolic_name |-> "o", constraint |-> "=r",
                                      return_type |-> FALSE, variable_name |-> "y"]>>,
                   input_list |-> <<[asm_symbolic_name |-> "number", constraint |-> "{rax}"],
                                    [asm_symbolic_name |-> "arg1", constraint |-> "{rdi}"]>>,
                   clobber_list |-> <<"rcx", "r11">>]]

\* The instruction objects of the graph, in the order of their handles.
HeapObjects == <<
    Ins("Const", 1, 1, FALSE, IntVal(FALSE, 42), NoMore),                        \* 1
    Ins("Const", 2, 1, FALSE, BoolVal(TRUE), NoMore),                            \* 2
    Ins("VarPtr", 4, 2, FALSE, RuntimeVal, [var |-> Var("x", FALSE, FALSE)]),    \* 3
    Ins("LoadPtr", 2, 3, FALSE, RuntimeVal, [ptr |-> 3]),                        \* 4
    Ins("Const", 1, 0, FALSE, UndefVal, NoMore),                                 \* 5
    Ins("Const", 5, 1, FALSE, ZeroesVal, NoMore),                                \* 6
    Ins("Call", 1, 0, TRUE, RuntimeVal,                                          \* 7
        [fn_entry |-> <<[symbol_name |-> "foo"]>>, fn_ref |-> NULL,
         arg_count |-> 2, args |-> <<3, 1>>]),
    Ins("Const", 8, 4, FALSE, TypeVal(1), NoMore),                               \* 8
    Ins("Const", 4, 1, FALSE, PtrVal(BoolVal(TRUE)), NoMore),                    \* 9
    Ins("Const", 19, 1, FALSE, BoundFnVal("foo", 7), NoMore),                    \* 10
    Ins("Const", 19, 1, FALSE, BoundFnVal("bar", 1), NoMore),                    \* 11
    Ins("Const", 19, 1, FALSE, BoundFnVal("baz", 10), NoMore),                   \* 12
    Ins("Const", 19, 1, FALSE, BoundFnVal("self", 13), NoMore),                  \* 13
    Ins("Const", 19, 1, FALSE, BoundFnVal("ping", 15), NoMore),                  \* 14
    Ins("Const", 19, 1, FALSE, BoundFnVal("pong", 14), NoMore),                  \* 15
    Ins("Return", 1, 5, TRUE, RuntimeVal, Val1(1)),                              \* 16
    Ins("Return", 13, 0, TRUE, RuntimeVal, Val1(3)),                             \* 17
    Ins("Return", 13, 0, TRUE, RuntimeVal, Val1(NULL)),                          \* 18
    Ins("BinOp", 1, 1, FALSE, RuntimeVal, [op_id |-> "Add", op1 |-> 3, op2 |-> 1]),      \* 19
    Ins("BinOp", 1, 1, FALSE, RuntimeVal, [op_id |-> "Invalid", op1 |-> 3, op2 |-> 1]),  \* 20
    Ins("UnOp", 2, 1, FALSE, RuntimeVal, [op_id |-> "BoolNot", value |-> 4]),    \* 21
    Ins("UnOp", 2, 1, FALSE, RuntimeVal, [op_id |-> "Unlisted", value |-> 4]),   \* 22
    Ins("DeclVar", 9, 0, TRUE, RuntimeVal,                                       \* 23
        [var |-> Var("x", FALSE, FALSE), var_type |-> 8, init_value |-> 1]),
    Ins("DeclVar", 9, 7, TRUE, RuntimeVal,                                       \* 24
        [var |-> Var("y", TRUE, TRUE), var_type |-> NULL, init_value |-> 4]),
    Ins("Cast", 3, 12, FALSE, RuntimeVal, [value |-> 3, dest_type |-> 3]),       \* 25
    Ins("Call", NULL, 0, TRUE, RuntimeVal,                                       \* 26
        [fn_entry |-> <<>>, fn_ref |-> 3, arg_count |-> 0, args |-> <<>>]),
    Ins("CondBr", 13, 0, TRUE, RuntimeVal,                                       \* 27
        [is_inline |-> TRUE, condition |-> 2, then_block |-> 1, else_block |-> 2]),
    Ins("Br", 13, 0, TRUE, RuntimeVal, [is_inline |-> FALSE, dest_block |-> 2]), \* 28
    Ins("Phi", 1, 1, FALSE, RuntimeVal,                                          \* 29
        [incoming_count |-> 2, incoming_blocks |-> <<1, 2>>, incoming_values |-> <<3, 4>>]),
    Ins("Phi", 1, 1, FALSE, RuntimeVal,                                          \* 30
        [incoming_count |-> 0, incoming_blocks |-> <<>>, incoming_values |-> <<>>]),
    Ins("Phi", 1, 1, FALSE, RuntimeVal,                                          \* 31
        [incoming_count |-> SIZE_MAX, incoming_blocks |-> <<>>, incoming_values |-> <<>>]),
    Ins("Phi", 1, 2, FALSE, RuntimeVal,                                          \* 32
        [incoming_count |-> 3, incoming_blocks |-> <<2, 1, 2>>,
         incoming_values |-> <<32, 1, 5>>]),
    Ins("ContainerInitList", 5, 1, FALSE, RuntimeVal,                            \* 33
        [container_type |-> 8, item_count |-> 2, items |-> <<1, 3>>]),
    Ins("ContainerInitFields", 20, 1, FALSE, RuntimeVal,                         \* 34
        [container_type |-> 3, field_count |-> 2,
         fields |-> <<[name |-> "x", value |-> 1], [name |-> "y", value |-> 4]>>]),
    Ins("StructInit", 20, 1, FALSE, RuntimeVal,                                  \* 35
        [struct_type |-> 20, field_count |-> 2,
         fields |-> <<[name |-> "x", value |-> 5], [name |-> "y", value |-> 3]>>]),
    Ins("Unreachable", 13, 0, TRUE, RuntimeVal, NoMore),                         \* 36
    Ins("ElemPtr", 4, 1, FALSE, RuntimeVal,                                      \* 37
        [array_ptr |-> 3, elem_index |-> 1, safety_check_on |-> FALSE]),
    Ins("StorePtr", 9, 0, TRUE, RuntimeVal, [ptr |-> 3, value |-> 1]),           \* 38
    Ins("StorePtr", 9, 0, TRUE, RuntimeVal, [ptr |-> 9, value |-> 4]),           \* 39
    Ins("TypeOf", 8, 1, FALSE, RuntimeVal, Val1(3)),                             \* 40
    Ins("ToPtrType", 8, 1, FALSE, RuntimeVal, Val1(8)),                          \* 41
    Ins("PtrTypeChild", 8, 1, FALSE, RuntimeVal, Val1(4)),                       \* 42
    Ins("FieldPtr", 4, 1, FALSE, RuntimeVal,                                     \* 43
        [container_ptr |-> 3, field_name |-> "len"]),
    Ins("StructFieldPtr", 4, 1, FALSE, RuntimeVal,                               \* 44
        [struct_ptr |-> 3, field |-> [name |-> "x"]]),
    Ins("EnumFieldPtr", 4, 1, FALSE, RuntimeVal,                                 \* 45
        [enum_ptr |-> 4, field |-> [name |-> "Red"]]),
    Ins("SetFnTest", 9, 0, TRUE, RuntimeVal, [fn_value |-> 3, is_test |-> 2]),   \* 46
    Ins("SetFnVisible", 9, 0, TRUE, RuntimeVal, [fn_value |-> 4, is_visible |-> 2]),     \* 47
    Ins("SetDebugSafety", 9, 0, TRUE, RuntimeVal,                                \* 48
        [scope_value |-> 3, debug_safety_on |-> 5]),
    Ins("ArrayType", 8, 1, FALSE, RuntimeVal, [size |-> 1, child_type |-> 3]),   \* 49
    Ins("SliceType", 8, 1, FALSE, RuntimeVal, [is_const |-> TRUE, child_type |-> 8]),    \* 50
    Ins("Asm", 1, 0, TRUE, RuntimeVal,                                           \* 51
        [source_node |-> AsmNode, asm_has_side_effects |-> TRUE,
         output_types |-> <<8, NULL>>, input_list |-> <<1, 3>>]),
    Ins("CompileVar", 2, 1, FALSE, RuntimeVal, [name |-> 4]),                    \* 52
    Ins("SizeOf", 1, 1, FALSE, RuntimeVal, [type_value |-> 8]),                  \* 53
    Ins("TestNull", 2, 1, FALSE, RuntimeVal, Val1(3)),                           \* 54
    Ins("UnwrapMaybe", 4, 1, FALSE, RuntimeVal,                                  \* 55
        [value |-> 3, safety_check_on |-> TRUE]),
    Ins("Ctz", 1, 1, FALSE, RuntimeVal, Val1(4)),                                \* 56
    Ins("Clz", 1, 1, FALSE, RuntimeVal, Val1(1)),                                \* 57
    Ins("SwitchBr", 13, 0, TRUE, RuntimeVal,                                     \* 58
        [is_inline |-> FALSE, target_value |-> 4, case_count |-> 2,
         cases |-> <<[value |-> 1, block |-> 1], [value |-> 3, block |-> 2]>>,
         else_block |-> 2]),
    Ins("SwitchBr", 13, 0, TRUE, RuntimeVal,                                     \* 59
        [is_inline |-> TRUE, target_value |-> 1, case_count |-> 0,
         cases |-> <<>>, else_block |-> 1]),
    Ins("SwitchVar", 4, 1, FALSE, RuntimeVal,                                    \* 60
        [target_value_ptr |-> 3, prong_value |-> 1]),
    Ins("SwitchTarget", 1, 1, FALSE, RuntimeVal, [target_value_ptr |-> 3]),      \* 61
    Ins("EnumTag", 1, 1, FALSE, RuntimeVal, Val1(4)),                            \* 62
    Ins("StaticEval", 1, 1, FALSE, RuntimeVal, Val1(1)),                         \* 63
    Ins("Import", 18, 1, FALSE, RuntimeVal, [name |-> 3]),                       \* 64
    Ins("ArrayLen", 1, 1, FALSE, RuntimeVal, [array_value |-> 6]),               \* 65
    Ins("Ref", 4, 1, FALSE, RuntimeVal, Val1(2)),                                \* 66
    Ins("Invalid", 1, 1, FALSE, RuntimeVal, NoMore),                             \* 67
    Ins("Unlisted", 1, 1, FALSE, RuntimeVal, NoMore),                            \* 68
    Ins("Const", 1, 1, FALSE, RuntimeVal, NoMore),                               \* 69
    Ins("Const", 25, 1, FALSE, OpaqueVal, NoMore),                               \* 70
    Ins("Const", 28, 1, FALSE, OpaqueVal, NoMore),                               \* 71
    Ins("Const", 9, 1, FALSE, OpaqueVal, NoMore),                                \* 72
    Ins("Const", 10, 1, FALSE, FloatVal(TRUE, 1, 500000), NoMore),               \* 73
    Ins("Const", 11, 1, FALSE, IntVal(TRUE, 7), NoMore),                         \* 74
    Ins("Const", 12, 1, FALSE, FloatVal(FALSE, 3, 250), NoMore),                 \* 75
    Ins("Const", 13, 1, FALSE, OpaqueVal, NoMore),                               \* 76
    Ins("Const", 14, 1, FALSE, FnVal("main"), NoMore),                           \* 77
    Ins("Const", 15, 1, FALSE, BlockVal(9, 4), NoMore),                          \* 78
    Ins("Const", 5, 1, FALSE,                                                    \* 79
        ArrayVal(<<IntVal(FALSE, 0), IntVal(FALSE, 0), IntVal(FALSE, 0)>>), NoMore),
    Ins("Const", 5, 1, FALSE, ArrayVal(<<ZeroesVal, ZeroesVal, ZeroesVal>>), NoMore),    \* 80
    Ins("Const", 27, 1, FALSE, ArrayVal(<<>>), NoMore),                          \* 81
    Ins("Const", 16, 1, FALSE, OpaqueVal, NoMore),                               \* 82
    Ins("Const", 17, 1, FALSE, OpaqueVal, NoMore),                               \* 83
    Ins("Const", 6, 1, FALSE, MaybeVal(<<>>), NoMore),                           \* 84
    Ins("Const", 6, 1, FALSE, MaybeVal(<<IntVal(FALSE, 5)>>), NoMore),           \* 85
    Ins("Const", 18, 1, FALSE, ImportVal("std/io.zig"), NoMore),                 \* 86
    Ins("Const", 20, 1, FALSE, OpaqueVal, NoMore),                               \* 87
    Ins("Const", 21, 1, FALSE, OpaqueVal, NoMore),                               \* 88
    Ins("Const", 22, 1, FALSE, OpaqueVal, NoMore),                               \* 89
    Ins("Const", 23, 1, FALSE, OpaqueVal, NoMore),                               \* 90
    Ins("Const", 24, 1, FALSE, OpaqueVal, NoMore),                               \* 91
    Ins("Const", 26, 1, FALSE, OpaqueVal, NoMore),                               \* 92
    Ins("Const", 7, 1, FALSE, IntVal(FALSE, 1000), NoMore),                      \* 93
    Ins("Const", 1, 1, FALSE, FloatVal(FALSE, 1, 0), NoMore),                    \* 94
    Ins("Const", 5, 1, FALSE,                                                    \* 95
        ArrayVal(<<IntVal(FALSE, 1), RuntimeVal, UndefVal>>), NoMore),
    Ins("Const", 4, 1, FALSE, UndefVal, NoMore),                                 \* 96
    Ins("Const", 29, 1, FALSE, ZeroesVal, NoMore),                               \* 97
    Ins("Const", 20, 1, FALSE, UndefVal, NoMore),                                \* 98
    Ins("Const", NULL, 1, FALSE, UndefVal, NoMore),                              \* 99
    Ins("Const", 6, 1, FALSE, ZeroesVal, NoMore),                                \* 100
    Ins("Const", 29, 1, FALSE, PtrVal(UndefVal), NoMore),                        \* 101
    Ins("Return", 19, 0, TRUE, RuntimeVal, Val1(12)),                            \* 102
    Ins("LoadPtr", 1, 1, FALSE, RuntimeVal, [ptr |-> 96]),                       \* 103
    Ins("Const", 19, 1, FALSE, BoundFnVal("u", 5), NoMore),                      \* 104
    Ins("Const", 19, 1, FALSE, BoundFnVal("z", 6), NoMore),                      \* 105
    Ins("Const", 5, 1, FALSE,                                                    \* 106
        ArrayVal(<<IntVal(FALSE, 1), IntVal(FALSE, 2), IntVal(FALSE, 3),
                   IntVal(FALSE, 4)>>), NoMore),
    Ins("Const", 30, 1, FALSE,                                                   \* 107
        ArrayVal(<<ArrayVal(<<IntVal(FALSE, 0), IntVal(FALSE, 0), IntVal(FALSE, 0)>>),
                   ZeroesVal>>), NoMore),
    Ins("Const", 19, 1, FALSE, BoundFnVal("c3", 12), NoMore),                    \* 108
    Ins("Const", 19, 1, FALSE, BoundFnVal("c4", 108), NoMore),                   \* 109
    Ins("Ref", NULL, 1000, FALSE, RuntimeVal, Val1(97))                          \* 110
>>

\* The number of instruction objects.
NumInstrs == Len(HeapObjects)

\* The debug id of the object with handle h: its handle, or a wide one.
DebugId(h) == IF h = NumInstrs THEN 1234 ELSE h

Heap == [h \in 1..NumInstrs |-> HeapObjects[h] @@ [debug_id |-> DebugId(h)]]

\* The name hint of the block object with handle b.
BlockName(b) == CASE b = 1 -> "then" [] b = 2 -> "else" [] OTHER -> "bb"

\* The instruction handles of a block: n objects from the s-th on, cyclically.
Window(s, n) == [j \in 1..n |-> ((s + j - 2) % NumInstrs) + 1]

RECURSIVE SumLens(_, _)
SumLens(lens, k) == IF k = 0 THEN 0 ELSE lens[k] + SumLens(lens, k - 1)

(* ------------------------------ the driver ---------------------------- *)

NoLine == [instr |-> NULL, text |-> <<>>, st |-> "ok", uses |-> <<>>]

\* The state before the first call: an object graph and the arguments.
Init ==
    /\ instrs = Heap
    /\ \E n \in 0..MaxBlocks, s \in 1..NumInstrs, lens \in [1..MaxBlocks -> 0..MaxInstrs] :
          /\ SumLens(lens, MaxBlocks) <= MaxInstrs
          /\ \A b \in 1..MaxBlocks : b > n => lens[b] = 0
          /\ blocks = [b \in 1..MaxBlocks |->
                          [name_hint |-> BlockName(b), debug_id |-> b - 1,
                           instruction_list |->
                               [j \in 1..lens[b] |->
                                   Window(s + SumLens(lens, b - 1), lens[b])[j]]]]
          /\ exe = [basic_block_list |-> [k \in 1..n |-> k]]
    /\ indent_size \in 0..MaxIndent
    /\ irp = [indent |-> 0, indent_size |-> 0]
    /\ bb_i = 0
    /\ instr_i = 0
    /\ at = "label"
    /\ out = <<>>
    /\ status = "idle"
    /\ prev_out = <<>>
    /\ dumps = 0
    /\ line = NoLine
    /\ calls = 0

graph == <<instrs, blocks, exe, indent_size>>

ir_print_begin_accumulate ==
    /\ status \in {"idle", "done"}
    /\ dumps < MaxDumps
    /\ irp' = [indent |-> irp.indent + indent_size, indent_size |-> indent_size]
    /\ bb_i' = 0
    /\ instr_i' = 0
    /\ at' = "label"
    /\ out' = <<>>
    /\ prev_out' = IF status = "done" THEN Append(prev_out, out) ELSE prev_out
    /\ status' = "running"
    /\ line' = NoLine
    /\ UNCHANGED <<graph, calls, dumps>>

\* ir_print is called on a fresh sink: its IrPrint is built from indent_size.
ir_print_begin ==
    /\ status \in {"idle", "done"}
    /\ dumps < MaxDumps
    /\ irp' = [indent |-> indent_size, indent_size |-> indent_size]
    /\ bb_i' = 0
    /\ instr_i' = 0
    /\ at' = "label"
    /\ out' = <<>>
    /\ prev_out' = IF status = "done" THEN Append(prev_out, out) ELSE prev_out
    /\ status' = "running"
    /\ line' = NoLine
    /\ UNCHANGED <<graph, calls, dumps>>

\* The block ir_print is at.
current_block == exe.basic_block_list[bb_i + 1]

ir_print_label_skip_first ==
    /\ status = "running"
    /\ at = "label"
    /\ bb_i < Len(exe.basic_block_list)
    /\ out' = out \o <<blocks[current_block].name_hint, "_",
                       Dec(blocks[current_block].debug_id), ":", "\n">>
    /\ instr_i' = 1
    /\ at' = "instrs"
    /\ UNCHANGED <<graph, calls, irp, bb_i, status, prev_out, dumps, line>>

ir_print_label_nested ==
    /\ status = "running"
    /\ at = "label"
    /\ bb_i < Len(exe.basic_block_list)
    /\ out' = out \o <<blocks[current_block].name_hint, "_",
                       Dec(blocks[current_block].debug_id), ":", "\n">>
    /\ irp' = [irp EXCEPT !.indent = @ + 1]
    /\ instr_i' = 0
    /\ at' = "instrs"
    /\ UNCHANGED <<graph, calls, bb_i, status, prev_out, dumps, line>>

\* The outer loop enters a block: fprintf("%s_%zu:\n", name_hint, debug_id).
ir_print_label ==
    /\ status = "running"
    /\ at = "label"
    /\ bb_i < Len(exe.basic_block_list)
    /\ out' = out \o <<blocks[current_block].name_hint, "_",
                       Dec(blocks[current_block].debug_id), ":", "\n">>
    /\ instr_i' = 0
    /\ at' = "instrs"
    /\ UNCHANGED <<graph, calls, irp, bb_i, status, prev_out, dumps, line>>

\* What a render result does to the running call.
Outcome(r) == CASE r.st = "ok" -> "running"
                [] r.st = "abort" -> "aborted"
                [] r.st = "unbounded" -> "recursing"

ir_print_instr_line_buffered ==
    /\ status = "running"
    /\ at = "instrs"
    /\ instr_i < Len(blocks[current_block].instruction_list)
    /\ LET instruction == blocks[current_block].instruction_list[instr_i + 1]
           r == ir_print_instruction(irp, instruction)
       IN  /\ out' = IF r.st = "ok" THEN out \o r.text ELSE out
           /\ line' = [instr |-> instruction, text |-> r.text, st |-> r.st, uses |-> r.uses]
           /\ status' = Outcome(r)
           /\ instr_i' = IF r.st = "ok" THEN instr_i + 1 ELSE instr_i
    /\ UNCHANGED <<graph, calls, irp, bb_i, at, prev_out, dumps>>

\* The inner loop renders one instruction: ir_print_instruction(irp, instruction).
ir_print_instr ==
    /\ status = "running"
    /\ at = "instrs"
    /\ instr_i < Len(blocks[current_block].instruction_list)
    /\ LET instruction == blocks[current_block].instruction_list[instr_i + 1]
           r == ir_print_instruction(irp, instruction)
       IN  /\ out' = out \o r.text
           /\ line' = [instr |-> instruction, text |-> r.text, st |-> r.st, uses |-> r.uses]
           /\ status' = Outcome(r)
           /\ instr_i' = IF r.st = "ok" THEN instr_i + 1 ELSE instr_i
    /\ UNCHANGED <<graph, calls, irp, bb_i, at, prev_out, dumps>>

\* The inner loop ends: the outer loop goes to the next block.
ir_print_next_block ==
    /\ status = "running"
    /\ at = "instrs"
    /\ instr_i >= Len(blocks[current_block].instruction_list)
    /\ bb_i' = bb_i + 1
    /\ at' = "label"
    /\ UNCHANGED <<graph, calls, irp, instr_i, out, status, prev_out, dumps, line>>

\* The outer loop ends: ir_print returns.
ir_print_return_ ==
    /\ status = "running"
    /\ at = "label"
    /\ bb_i >= Len(exe.basic_block_list)
    /\ status' = "done"
    /\ dumps' = dumps + 1
    /\ UNCHANGED <<graph, calls, irp, bb_i, instr_i, at, out, prev_out, line>>

\* The instruction whose value an endless recursion is about to render again:
\* the last operand visited.
recursion_knot == line.uses[Len(line.uses)].instr

\* What the next call of the recursion does: the value of the knot is rendered
\* up to the call on its own receiver, which is the next knot.
recursion_call == ir_print_const_instruction(recursion_knot, DOMAIN instrs)

\* The recursion goes one call deeper: one more value of the cycle is entered,
\* writes its text and calls on its receiver.
ir_print_recurse ==
    /\ status = "recursing"
    /\ calls < MaxCalls
    /\ LET r == recursion_call
           hop == line.uses[Len(line.uses)].hop
       IN  /\ out' = out \o r.text
           /\ line' = [line EXCEPT
                         !.text = @ \o r.text,
                         !.uses = @ \o [k \in 1..Len(r.uses) |->
                                           [r.uses[k] EXCEPT !.hop = @ + hop]]]
    /\ calls' = calls + 1
    /\ UNCHANGED <<graph, irp, bb_i, instr_i, at, status, prev_out, dumps>>

\* A build that keeps a frame per call runs out of stack at some call and the
\* process dies there; a build that turns the tail calls into a loop never does.
ir_print_stack_exhausted ==
    /\ status = "recursing"
    /\ status' = "overflow"
    /\ UNCHANGED <<graph, calls, irp, bb_i, instr_i, at, out, prev_out, dumps, line>>

Next ==
    \/ ir_print_begin
    \/ ir_print_label
    \/ ir_print_instr
    \/ ir_print_next_block
    \/ ir_print_return_
    \/ ir_print_recurse
    \/ ir_print_stack_exhausted

Spec == Init /\ [][Next]_vars

(* ------------------------------ the claims ---------------------------- *)

\* The pieces of the prefix of a line: the indent, then "#", id, "| ", type,
\* "| ", count, "| ".
PrefixLen == irp.indent + 7

\* The body of the last instruction line, when its render returned.
Body == SubSeq(line.text, PrefixLen + 1, Len(line.text) - 1)

\* The evaluation state of the instruction with handle h.
Special(h) == instrs[h].static_value.special

\* The token a Runtime instruction is referred to by.
RefToken(h) == <<"#", Dec(instrs[h].debug_id)>>

\* A line has been rendered to its end.
LineDone == line.instr # NULL /\ line.st = "ok"

\* C1: every operand visited while rendering a line (operands of the line's
\* instruction of any kind, and receivers of bound-function values) that is in
\* Runtime state is written as the reference token #<debug-id>, is not handed to
\* the constant-value renderer, and none of its own operands is visited.
C1_RuntimeOperandIsReference ==
    \A k \in 1..Len(line.uses) :
        LET u == line.uses[k]
        IN  Special(u.instr) = "Runtime" =>
                /\ u.form = "ref"
                /\ u.text = RefToken(u.instr)
                /\ (k < Len(line.uses) => line.uses[k + 1].hop <= u.hop)

\* A line was rendered in which a bound-function value inside an operand has a
\* Runtime receiver, and a line whose StorePtr pointer is Runtime.
C1_Witness ==
    /\ LineDone
    /\ \E k \in 1..Len(line.uses) :
          /\ Special(line.uses[k].instr) = "Runtime"
          /\ line.uses[k].hop >= 2
          /\ line.uses[k].text = <<"#", "7">>

\* C2 (as claimed): every operand visited that is in StaticallyKnown, Undefined
\* or Zeroed state is written in the value form of the constant-value renderer,
\* never as a bare #<debug-id>, the pointer of StorePtr included.
C2_StaticOperandIsValue ==
    \A k \in 1..Len(line.uses) :
        LET u == line.uses[k]
        IN  Special(u.instr) # "Runtime" =>
                u.form = "value" /\ u.text # RefToken(u.instr)

RECURSIVE ExpectedInstrs(_, _)
\* The lines of the instructions of a list, from the j-th on, in list order.
ExpectedInstrs(list, j) ==
    IF j > Len(list) THEN <<>>
    ELSE ir_print_instruction(irp, list[j]).text \o ExpectedInstrs(list, j + 1)

RECURSIVE ExpectedBlocks(_)
\* The label line and the instruction lines of the blocks from the k-th on.
ExpectedBlocks(k) ==
    IF k > Len(exe.basic_block_list) THEN <<>>
    ELSE LET bb == blocks[exe.basic_block_list[k]]
         IN  <<bb.name_hint, "_", Dec(bb.debug_id), ":", "\n">>
             \o ExpectedInstrs(bb.instruction_list, 1)
             \o ExpectedBlocks(k + 1)

\* C3: a dump that returns has written, for block 0..n-1 in declaration order,
\* the label line <name-hint>_<debug-id>: and then one line per instruction of
\* the block in list order, nothing skipped, repeated or reordered.
C3_DumpInDeclarationOrder ==
    status = "done" => out = ExpectedBlocks(1)

\* A dump of two blocks that hold instructions has returned.
C3_Witness ==
    /\ status = "done"
    /\ Len(exe.basic_block_list) = 2
    /\ \A k \in 1..2 : Len(blocks[exe.basic_block_list[k]].instruction_list) >= 1

\* C4 (as claimed): the dump terminates on every finite executable, cycles
\* through statically-known bound-function receivers included: rendering never
\* recurses without end, and the call stack is never exhausted.
C4_DumpTerminates ==
    status \notin {"recursing", "overflow"}

\* The count column of the last line: the sixth piece after the indent.
CountColumn == line.text[irp.indent + 6]

\* C5: the use-count column of every instruction line is "-" when the
\* instruction has side effects, whatever its ref_count, and the decimal
\* ref_count otherwise (left-justified in its field of width 2).
C5_UseCountColumn ==
    line.instr # NULL =>
        CountColumn = PadRight(IF instrs[line.instr].has_side_effects THEN "-"
                               ELSE Dec(instrs[line.instr].ref_count), 2)

\* A line was rendered for a side-effecting instruction with ref_count 5, and
\* its column is "-".
C5_Witness ==
    /\ line.instr # NULL
    /\ instrs[line.instr].has_side_effects
    /\ instrs[line.instr].ref_count = 5
    /\ CountColumn = "- "

\* The internal invariant violations of an instruction, as the claim lists them.
Violation(h) ==
    LET I == instrs[h]
    IN  \/ I.id = "Const" /\ I.static_value.special = "Runtime"
        \/ I.id = "Phi" /\ I.incoming_count \in {0, SIZE_MAX}
        \/ I.id = "Invalid"
        \/ I.id \notin InstructionKinds
        \/ I.id = "BinOp" /\ I.op_id \notin DOMAIN BinOpStr
        \/ I.id = "UnOp" /\ I.op_id \notin DOMAIN UnOpStr
        \/ /\ I.id = "Const"
           /\ I.static_value.special = "Static"
           /\ TypeTable[I.type_entry].id \in {"Invalid"} \cup ({"Unlisted"} \ ValueKinds)

\* C6 (as claimed): every internal invariant violation aborts the dump at once
\* and is never rendered as default text or skipped.
C6_ViolationsAbort ==
    (line.instr # NULL /\ Violation(line.instr)) => line.st = "abort"

\* The fixed word of an evaluation state that carries no value.
StateWord(sp) == IF sp = "Undef" THEN <<"undefined">> ELSE <<"zeroes">>

\* C7: whatever the type kind, a value in Undefined state handed to the
\* constant-value renderer is written as exactly undefined and one in Zeroed
\* state as exactly zeroes: as the body of a Const line and as an operand.
C7_StateBeforeType ==
    /\ (LineDone /\ instrs[line.instr].id = "Const"
            /\ Special(line.instr) \in {"Undef", "Zeroes"})
       => Body = StateWord(Special(line.instr))
    /\ \A k \in 1..Len(line.uses) :
          LET u == line.uses[k]
          IN  (u.form = "value" /\ Special(u.instr) \in {"Undef", "Zeroes"})
              => u.text = StateWord(Special(u.instr))
    /\ (line.instr # NULL /\ instrs[line.instr].id = "Const"
            /\ Special(line.instr) \in {"Undef", "Zeroes"})
       => line.st = "ok"

\* A Const line was rendered for a Zeroed value of a declared-alias type.
C7_Witness ==
    /\ LineDone
    /\ instrs[line.instr].id = "Const"
    /\ Special(line.instr) = "Zeroes"
    /\ TypeTable[instrs[line.instr].type_entry].id = "TypeDecl"
    /\ Body = <<"zeroes">>

RECURSIVE PhiText(_, _, _)
\* The edges of a Phi from the i-th on, as <sigil><name-hint>_<debug-id>:<value>
\* pairs separated by one space.
PhiText(h, i, sigil) ==
    IF i > instrs[h].incoming_count THEN ""
    ELSE LET bb == blocks[instrs[h].incoming_blocks[i]]
             v == instrs[h].incoming_values[i]
         IN  (IF i # 1 THEN " " ELSE "")
             \o sigil \o bb.name_hint \o "_" \o Dec(bb.debug_id) \o ":"
             \o Flatten(ir_print_other_instruction(v, {}).text)
             \o PhiText(h, i + 1, sigil)

\* The Phi of the example: edges (then, id 0, Runtime #3), (else, id 1, Runtime #4).
IsExamplePhi(h) ==
    /\ instrs[h].id = "Phi"
    /\ instrs[h].incoming_count = 2
    /\ \A i \in 1..2 :
          /\ blocks[instrs[h].incoming_blocks[i]].name_hint = <<"then", "else">>[i]
          /\ blocks[instrs[h].incoming_blocks[i]].debug_id = i - 1
          /\ Special(instrs[h].incoming_values[i]) = "Runtime"
          /\ instrs[instrs[h].incoming_values[i]].debug_id = i + 2

\* C8 (as claimed): a Phi renders its edges in declaration order with the block
\* token <name-hint>_<debug-id>; the example renders then_0:#3 else_1:#4.
C8_PhiPlainBlockToken ==
    (LineDone /\ instrs[line.instr].id = "Phi") =>
        /\ Flatten(Body) = PhiText(line.instr, 1, "")
        /\ IsExamplePhi(line.instr) => Flatten(Body) = "then_0:#3 else_1:#4"

\* C8 (amended): a Phi renders its edges in declaration order as
\* $<name-hint>_<debug-id>:<value> pairs separated by one space, the value by
\* the operand reference renderer; the example renders $then_0:#3 $else_1:#4.
C8_PhiSigilBlockToken ==
    (LineDone /\ instrs[line.instr].id = "Phi") =>
        /\ Flatten(Body) = PhiText(line.instr, 1, "$")
        /\ IsExamplePhi(line.instr) => Flatten(Body) = "$then_0:#3 $else_1:#4"

\* The line of the example Phi was rendered.
C8_Witness ==
    /\ LineDone
    /\ IsExamplePhi(line.instr)
    /\ Flatten(Body) = "$then_0:#3 $else_1:#4"

RECURSIVE InstrCount(_)
\* The instructions of the blocks of the executable from the k-th on.
InstrCount(k) ==
    IF k > Len(exe.basic_block_list) THEN 0
    ELSE Len(blocks[exe.basic_block_list[k]].instruction_list) + InstrCount(k + 1)

\* C9: a dump that returns has written as many newlines as the executable has
\* blocks and instructions, the last piece written is a newline, and every
\* instruction render that returned wrote exactly one newline, as its last piece.
C9_OneLinePerBlockAndInstruction ==
    /\ status = "done" =>
          /\ CountNewlines(out) = Len(exe.basic_block_list) + InstrCount(1)
          /\ (out # <<>> => out[Len(out)] = "\n")
    /\ LineDone =>
          /\ CountNewlines(line.text) = 1
          /\ line.text[Len(line.text)] = "\n"

\* A dump of two blocks and two instructions has returned.
C9_Witness ==
    /\ status = "done"
    /\ Len(exe.basic_block_list) = 2
    /\ InstrCount(1) = 2
    /\ CountNewlines(out) = 4

\* C10: no step of a dump changes the graph or the indent argument, and a dump
\* of the same executable with the same indent writes the text every earlier
\* dump wrote.
C10_DumpIsDeterministic ==
    [][/\ graph' = graph
       /\ status' = "done" => \A k \in 1..Len(prev_out') : prev_out'[k] = out']_vars

\* The executable was dumped twice, with an instruction line and a margin.
C10_Witness ==
    /\ status = "done"
    /\ dumps = 2
    /\ prev_out = <<out>>
    /\ indent_size > 0
    /\ LineDone

RECURSIVE ArrayText(_, _)
RECURSIVE ArrayElemsText(_, _, _)
\* A value of an integer or array type as the claim writes it: the word of its
\* evaluation state, a signed numeral, or <T-name>{e1,...,en} with n the length
\* of the type.
ArrayText(t, v) ==
    CASE v.special = "Zeroes" -> "zeroes"
      [] v.special = "Undef" -> "undefined"
      [] v.special = "Static" /\ TypeTable[t].id = "Int" ->
            (IF v.x_bignum.is_negative THEN "-" ELSE "") \o Dec(v.x_bignum.x_uint)
      [] v.special = "Static" /\ TypeTable[t].id = "Array" ->
            TypeTable[t].name \o "{" \o ArrayElemsText(t, v, 1) \o "}"

\* The elements of an array value from the i-th on, separated by single commas.
ArrayElemsText(t, v, i) ==
    IF i > TypeTable[t].len THEN ""
    ELSE (IF i > 1 THEN "," ELSE "")
         \o ArrayText(TypeTable[t].child_type, v.x_array.elements[i])
         \o ArrayElemsText(t, v, i + 1)

\* The last line is a Const line of a statically-known array that was rendered.
IsArrayLine ==
    /\ LineDone
    /\ instrs[line.instr].id = "Const"
    /\ Special(line.instr) = "Static"
    /\ TypeTable[instrs[line.instr].type_entry].id = "Array"

\* C11: a statically-known array of type T and length n is written as
\* <T-name>{ + its first n elements in index order, each rendered at the element
\* type, separated by single commas with none trailing, + }; Zeroed elements
\* give [3]u8{zeroes,zeroes,zeroes}, integer zeros [3]u8{0,0,0}, and a
\* zero-length array <T-name>{}.
C11_ArrayRendering ==
    IsArrayLine =>
        LET I == instrs[line.instr]
            es == I.static_value.x_array.elements
        IN  /\ Flatten(Body) = ArrayText(I.type_entry, I.static_value)
            /\ (TypeTable[I.type_entry].name = "[3]u8"
                    /\ es = <<ZeroesVal, ZeroesVal, ZeroesVal>>)
               => Flatten(Body) = "[3]u8{zeroes,zeroes,zeroes}"
            /\ (TypeTable[I.type_entry].name = "[3]u8"
                    /\ es = <<IntVal(FALSE, 0), IntVal(FALSE, 0), IntVal(FALSE, 0)>>)
               => Flatten(Body) = "[3]u8{0,0,0}"
            /\ TypeTable[I.type_entry].len = 0
               => Flatten(Body) = TypeTable[I.type_entry].name \o "{}"

\* The line of a [3]u8 array of three Zeroed elements was rendered.
C11_Witness ==
    /\ IsArrayLine
    /\ instrs[line.instr].static_value.x_array.elements = <<ZeroesVal, ZeroesVal, ZeroesVal>>
    /\ Flatten(Body) = "[3]u8{zeroes,zeroes,zeroes}"

\* The token a block is referred to by.
BlockToken(b) == "$" \o blocks[b].name_hint \o "_" \o Dec(blocks[b].debug_id)

\* What the operand reference renderer writes for the instruction with handle h.
OperandText(h) == Flatten(ir_print_other_instruction(h, {}).text)

RECURSIVE SwitchCasesText(_, _)
\* The cases of a SwitchBr from the i-th on, each as "<value> => <block>, ".
SwitchCasesText(h, i) ==
    IF i > instrs[h].case_count THEN ""
    ELSE OperandText(instrs[h].cases[i].value) \o " => "
         \o BlockToken(instrs[h].cases[i].block) \o ", "
         \o SwitchCasesText(h, i + 1)

RECURSIVE CountPiece(_, _)
\* How many pieces of a text are the piece p.
CountPiece(t, p) == IF t = <<>> THEN 0
                    ELSE (IF Head(t) = p THEN 1 ELSE 0) + CountPiece(Tail(t), p)

\* C12: a SwitchBr line is the target operand, then every case in declaration
\* order as "<case-value> => <case-block>, ", then "else => <default-block>",
\* written exactly once and last, whatever the number of cases.
C12_SwitchBrRendering ==
    (LineDone /\ instrs[line.instr].id = "SwitchBr") =>
        LET I == instrs[line.instr]
        IN  /\ Flatten(Body) = (IF I.is_inline THEN "inline " ELSE "") \o "switch ("
                               \o OperandText(I.target_value) \o ") "
                               \o SwitchCasesText(line.instr, 1)
                               \o "else => " \o BlockToken(I.else_block)
            /\ CountPiece(Body, "else => ") = 1
            /\ Body[Len(Body) - 4] = "else => "

\* The line of a SwitchBr without cases was rendered.
C12_Witness ==
    /\ LineDone
    /\ instrs[line.instr].id = "SwitchBr"
    /\ instrs[line.instr].case_count = 0
    /\ Flatten(Body) = "inline switch (42) else => $then_0"

\* The instruction with handle h carries a statically-known bound-function value.
IsBoundFn(h) ==
    /\ Special(h) = "Static"
    /\ instrs[h].type_entry # NULL
    /\ TypeTable[instrs[h].type_entry].id = "BoundFn"

\* The receiver of a bound-function value as the claim writes it: #<id> when it
\* is Runtime, its inlined value otherwise.
ReceiverText(r) ==
    IF Special(r) = "Runtime" THEN "#" \o Dec(instrs[r].debug_id)
    ELSE Flatten(ir_print_const_value(instrs[r].type_entry, instrs[r].static_value, {}).text)

\* The bound-function value of the instruction with handle h, as the claim writes it.
BoundFnText(h) ==
    "bound " \o instrs[h].static_value.x_bound_fn.fn.symbol_name \o " to "
    \o ReceiverText(instrs[h].static_value.x_bound_fn.first_arg)

\* C13: a statically-known bound-function value, as the body of a Const line or
\* as an operand, is written "bound <symbol> to <receiver>", the receiver being
\* #<id> when it is Runtime (symbol foo and receiver #7 give "bound foo to #7")
\* and its inlined value when it is StaticallyKnown, Undefined or Zeroed.
C13_BoundFnRendering ==
    LineDone =>
        /\ (instrs[line.instr].id = "Const" /\ IsBoundFn(line.instr)) =>
              LET bf == instrs[line.instr].static_value.x_bound_fn
              IN  /\ Flatten(Body) = BoundFnText(line.instr)
                  /\ (bf.fn.symbol_name = "foo" /\ Special(bf.first_arg) = "Runtime"
                          /\ instrs[bf.first_arg].debug_id = 7)
                     => Flatten(Body) = "bound foo to #7"
                  /\ Special(bf.first_arg) = "Undef"
                     => Flatten(Body) = "bound " \o bf.fn.symbol_name \o " to undefined"
                  /\ Special(bf.first_arg) = "Zeroes"
                     => Flatten(Body) = "bound " \o bf.fn.symbol_name \o " to zeroes"
        /\ \A k \in 1..Len(line.uses) :
              (line.uses[k].form = "value" /\ IsBoundFn(line.uses[k].instr))
              => Flatten(line.uses[k].text) = BoundFnText(line.uses[k].instr)

\* The line of the bound-function value of foo with Runtime receiver #7 was rendered.
C13_Witness ==
    /\ LineDone
    /\ instrs[line.instr].id = "Const"
    /\ IsBoundFn(line.instr)
    /\ Special(instrs[line.instr].static_value.x_bound_fn.first_arg) = "Runtime"
    /\ Flatten(Body) = "bound foo to #7"

\* The #<id> field and the type column of the last line.
IdField == line.text[irp.indent + 2]
TypeField == line.text[irp.indent + 4]

\* The name written in the type column for the instruction with handle h.
TypeColumnName(h) == IF instrs[h].type_entry = NULL THEN "(unknown)"
                     ELSE TypeTable[instrs[h].type_entry].name

\* C14 (as claimed): on every instruction line the id field is exactly 3
\* characters wide, ids of 1000 and above included, and the type column is
\* exactly 12 characters wide, so that the columns after them start at the same
\* offset on every line.
C14_FixedWidthPrefix ==
    line.instr # NULL => (Len(IdField) = 3 /\ Len(TypeField) = 12)

\* C14 (amended): the id field is the whole decimal debug id and the type column
\* the whole type name (or "(unknown)" for a null type), each left-justified and
\* padded with spaces to a width of at least 3 and 12, never truncated; the
\* columns that follow are at the common offset exactly when the id is below
\* 1000 and the name has at most 12 characters.
C14_MinWidthPrefix ==
    line.instr # NULL =>
        LET id == Dec(instrs[line.instr].debug_id)
            name == TypeColumnName(line.instr)
        IN  /\ line.text[irp.indent + 1] = "#"
            /\ IdField = id \o Spaces(3 - Len(id))
            /\ TypeField = name \o Spaces(12 - Len(name))
            /\ Len(IdField) = Max(3, Len(id))
            /\ Len(TypeField) = Max(12, Len(name))
            /\ (Len(IdField) = 3 /\ Len(TypeField) = 12)
               <=> (instrs[line.instr].debug_id < 1000 /\ Len(name) <= 12)

\* A line was rendered for an instruction of null type with debug id 1234: the
\* id field holds the four digits and the type column the padded placeholder.
C14_Witness ==
    /\ line.instr # NULL
    /\ instrs[line.instr].type_entry = NULL
    /\ instrs[line.instr].debug_id = 1234
    /\ IdField = "1234"
    /\ TypeField = "(unknown)   "

\* The label line of the k-th block and the lines of its first n instructions.
BlockText(k, n) ==
    LET bb == blocks[exe.basic_block_list[k]]
    IN  <<bb.name_hint, "_", Dec(bb.debug_id), ":", "\n">>
        \o ExpectedInstrs(SubSeq(bb.instruction_list, 1, n), 1)

RECURSIVE BlocksBefore(_)
\* The complete text of the first k blocks.
BlocksBefore(k) ==
    IF k = 0 THEN <<>>
    ELSE BlocksBefore(k - 1)
         \o BlockText(k, Len(blocks[exe.basic_block_list[k]].instruction_list))

\* C15: when a dump aborts at an instruction, the text written is the complete
\* lines of every block label and instruction before it, in emission order and
\* as a successful dump writes them, followed by the partial line of that
\* instruction (its prefix and what was rendered before the violation, without
\* its newline), and nothing of any later instruction or block.
C15_AbortKeepsPartialOutput ==
    status = "aborted" =>
        LET list == blocks[current_block].instruction_list
        IN  /\ at = "instrs"
            /\ instr_i < Len(list)
            /\ line.instr = list[instr_i + 1]
            /\ line.st = "abort"
            /\ \A j \in 1..instr_i : ir_print_instruction(irp, list[j]).st = "ok"
            /\ out = BlocksBefore(bb_i) \o BlockText(bb_i + 1, instr_i) \o line.text
            /\ Len(line.text) >= PrefixLen
            /\ SubSeq(line.text, 1, PrefixLen) = ir_print_prefix(irp, line.instr).text
            /\ CountNewlines(line.text) = 0

\* A dump aborted at the second instruction of a block after writing operand
\* text of that instruction.
C15_Witness ==
    /\ status = "aborted"
    /\ instr_i = 1
    /\ Len(line.text) > PrefixLen
    /\ Len(out) > Len(line.text) + 5

\* Some instruction of the kind renders to its end with a body.
InstructionKindRenders(kind) ==
    \E h \in 1..NumInstrs :
        /\ instrs[h].id = kind
        /\ LET r == ir_print_instruction(irp, h)
           IN  r.st = "ok" /\ Len(r.text) > irp.indent + 8

\* Some Const instruction with a statically-known value of the type-kind
\* renders to its end with a body.
ValueKindRenders(kind) ==
    \E h \in 1..NumInstrs :
        /\ instrs[h].id = "Const"
        /\ Special(h) = "Static"
        /\ instrs[h].type_entry # NULL
        /\ TypeTable[instrs[h].type_entry].id = kind
        /\ LET r == ir_print_instruction(irp, h)
           IN  r.st = "ok" /\ Len(r.text) > irp.indent + 8

\* C16: for every instruction kind other than Invalid, and for every type-kind
\* of a statically-known value, the object graph a dump is called on holds an
\* instruction of that kind whose rendering writes its body and returns.
C16_DispatchesExhaustive ==
    status = "idle" =>
        /\ \A kind \in InstructionKinds \ {"Invalid"} : InstructionKindRenders(kind)
        /\ \A kind \in ValueKinds \ {"Invalid"} : ValueKindRenders(kind)

\* The line of a constant of the pure-error type-kind, the last case of the value
\* dispatch, was rendered to its end by a dump that goes on.
C16_Witness ==
    /\ LineDone
    /\ instrs[line.instr].id = "Const"
    /\ Body = <<"(pure error constant)">>
    /\ status = "running"

\* C17: the indent counter is the base indent from the start of the dump on and
\* never changes; every instruction line begins with exactly that many spaces
\* and then #, whatever the block and the operands; a block label line begins
\* with the name hint, with no indentation.
C17_FixedLeftMargin ==
    /\ status # "idle" => irp.indent = indent_size
    /\ line.instr # NULL =>
          /\ \A k \in 1..indent_size : line.text[k] = " "
          /\ line.text[indent_size + 1] = "#"
    /\ (status = "running" /\ at = "instrs" /\ instr_i = 0) =>
          /\ Len(out) >= 5
          /\ SubSeq(out, Len(out) - 4, Len(out))
                = <<blocks[current_block].name_hint, "_",
                    Dec(blocks[current_block].debug_id), ":", "\n">>
          /\ (Len(out) > 5 => out[Len(out) - 5] = "\n")

\* With a base indent of 1, a line with operands was rendered in the second block.
C17_Witness ==
    /\ LineDone
    /\ indent_size = 1
    /\ bb_i = 1
    /\ Len(line.uses) > 0
    /\ line.text[1] = " "
    /\ line.text[2] = "#"

====
